---- MODULE Spec2Model ----
(***************************************************************************)
(* Model of logs_to_chatml.py: the format-tolerant loader (load_games),    *)
(* the example extractor and batch driver (process_logs), the conversation *)
(* formatter (format_conversation) and the persistence steps of main.      *)
(*                                                                         *)
(* Text is a sequence of tokens.  Every token stands for a fixed piece of  *)
(* text and no token is a prefix of another, so two token sequences are    *)
(* equal exactly when the texts they spell are equal.  In file content the *)
(* tokens "G1".."G8" stand for one-line JSON object literals (the games of *)
(* GameOf), "null" for a JSON scalar and "x" for text that is not JSON.    *)
(***************************************************************************)
EXTENDS Integers, Sequences, FiniteSets, TLC

VARIABLES logs_dir, pc, exc, fileIdx, games, gameIdx,
          werewolf_examples, villager_examples, opened,
          out_dir_created, werewolf_saved, villager_saved,
          load_in, load_out, fmt_in, fmt_out

vars == <<logs_dir, pc, exc, fileIdx, games, gameIdx,
          werewolf_examples, villager_examples, opened,
          out_dir_created, werewolf_saved, villager_saved,
          load_in, load_out, fmt_in, fmt_out>>

(***************************************************************************)
(* Bounds                                                                  *)
(***************************************************************************)
MaxFiles == 2
MaxTextLen == 4
MaxChunks == 2

(***************************************************************************)
(* Strings                                                                 *)
(***************************************************************************)
RECURSIVE SeqsUpTo(_, _)
SeqsUpTo(S, n) ==
    IF n = 0 THEN {<<>>}
    ELSE LET shorter == SeqsUpTo(S, n - 1)
         IN  shorter \cup {Append(s, c) : s \in {t \in shorter : Len(t) = n - 1}, c \in S}

StartsWith(s, prefix) ==
    /\ Len(s) >= Len(prefix)
    /\ SubSeq(s, 1, Len(prefix)) = prefix

EndsWith(s, suffix) ==
    /\ Len(s) >= Len(suffix)
    /\ SubSeq(s, Len(s) - Len(suffix) + 1, Len(s)) = suffix

\* needle in haystack (Python's substring test)
Contains(haystack, needle) ==
    \E i \in 0..(Len(haystack) - Len(needle)) :
        SubSeq(haystack, i + 1, i + Len(needle)) = needle

Whitespace == {" ", "\n"}

\* str.strip()
Strip(s) ==
    LET nonws == {i \in 1..Len(s) : s[i] \notin Whitespace}
    IN  IF nonws = {} THEN <<>>
        ELSE SubSeq(s, CHOOSE i \in nonws : \A j \in nonws : i <= j,
                       CHOOSE i \in nonws : \A j \in nonws : j <= i)

\* str.splitlines()
RECURSIVE SplitLines(_)
SplitLines(s) ==
    IF s = <<>> THEN <<>>
    ELSE LET nls == {i \in 1..Len(s) : s[i] = "\n"}
         IN  IF nls = {} THEN <<s>>
             ELSE LET k == CHOOSE i \in nls : \A j \in nls : i <= j
                  IN  <<SubSeq(s, 1, k - 1)>> \o SplitLines(SubSeq(s, k + 1, Len(s)))

\* str.lower() on the characters of a file name
LowerChar(c) ==
    CASE c = "J" -> "j"
      [] c = "S" -> "s"
      [] c = "O" -> "o"
      [] c = "N" -> "n"
      [] c = "L" -> "l"
      [] c = "B" -> "b"
      [] OTHER   -> c

Lower(s) == [i \in 1..Len(s) |-> LowerChar(s[i])]

(***************************************************************************)
(* format_conversation                                                     *)
(***************************************************************************)
\* variant: the response is interpolated in both places
format_conversation_response_twice(prompt, response) ==
    <<"<im_start>", "user", "\n">> \o response
        \o <<"<im_end>", "\n", "<im_start>", "assistant", "\n">>
        \o response \o <<"<im_end>">>

format_conversation(prompt, response) ==
    <<"<im_start>", "user", "\n">> \o prompt
        \o <<"<im_end>", "\n", "<im_start>", "assistant", "\n">>
        \o response \o <<"<im_end>">>

(***************************************************************************)
(* JSON values and json.loads                                              *)
(***************************************************************************)
GameTokens == {"G1", "G2", "G3", "G4", "G5", "G6", "G7", "G8"}

JNull == [t |-> "null", g |-> "", items |-> <<>>]
JDict(tok) == [t |-> "dict", g |-> tok, items |-> <<>>]
JList(elems) == [t |-> "list", g |-> "", items |-> elems]

IsDict(v) == v.t = "dict"
IsList(v) == v.t = "list"

ParseFail == [ok |-> FALSE, val |-> JNull, next |-> 0]

RECURSIVE SkipWs(_, _)
SkipWs(s, i) ==
    IF i <= Len(s) /\ s[i] \in Whitespace THEN SkipWs(s, i + 1) ELSE i

RECURSIVE ParseValue(_, _)
RECURSIVE ParseElems(_, _, _)

\* one JSON value starting at position i (no leading whitespace)
ParseValue(s, i) ==
    IF i > Len(s) THEN ParseFail
    ELSE IF s[i] \in GameTokens THEN [ok |-> TRUE, val |-> JDict(s[i]), next |-> i + 1]
    ELSE IF s[i] = "null" THEN [ok |-> TRUE, val |-> JNull, next |-> i + 1]
    ELSE IF s[i] = "[" THEN
        LET j == SkipWs(s, i + 1)
        IN  IF j <= Len(s) /\ s[j] = "]"
            THEN [ok |-> TRUE, val |-> JList(<<>>), next |-> j + 1]
            ELSE ParseElems(s, j, <<>>)
    ELSE ParseFail

\* the elements of an array from position i on, up to and including "]"
ParseElems(s, i, acc) ==
    LET r == ParseValue(s, i)
    IN  IF ~r.ok THEN ParseFail
        ELSE LET j == SkipWs(s, r.next)
             IN  IF j > Len(s) THEN ParseFail
                 ELSE IF s[j] = "]"
                      THEN [ok |-> TRUE, val |-> JList(Append(acc, r.val)), next |-> j + 1]
                 ELSE IF s[j] = ","
                      THEN ParseElems(s, SkipWs(s, j + 1), Append(acc, r.val))
                 ELSE ParseFail

\* json.loads: one value, surrounded by optional whitespace, nothing after it;
\* ok = FALSE stands for json.JSONDecodeError
json_loads(s) ==
    LET r == ParseValue(s, SkipWs(s, 1))
    IN  IF ~r.ok THEN ParseFail
        ELSE IF SkipWs(s, r.next) <= Len(s) THEN ParseFail
        ELSE r

(***************************************************************************)
(* load_games                                                              *)
(***************************************************************************)
Returned(gs) == [raised |-> FALSE, exc |-> "", games |-> gs]
Raised(e) == [raised |-> TRUE, exc |-> e, games |-> <<>>]

\* Case C: the mappings among the lines
RECURSIVE load_jsonl(_)
load_jsonl(lines) ==
    IF lines = <<>> THEN <<>>
    ELSE LET line == Strip(Head(lines))
             o == json_loads(line)
         IN  IF line = <<>> THEN load_jsonl(Tail(lines))
             ELSE IF o.ok /\ IsDict(o.val) THEN <<o.val>> \o load_jsonl(Tail(lines))
             ELSE load_jsonl(Tail(lines))

\* Case B and after
load_object_or_lines(raw) ==
    LET obj == json_loads(raw)
    IN  IF obj.ok /\ IsDict(obj.val) THEN Returned(<<obj.val>>)
        ELSE Returned(load_jsonl(SplitLines(raw)))

\* variant: Case A keeps only the mappings of the array
load_games_filtering(file) ==
    IF ~file.readable THEN Raised("OSError")
    ELSE LET raw == Strip(file.text)
         IN  IF StartsWith(raw, <<"[">>) /\ EndsWith(raw, <<"]">>)
             THEN LET data == json_loads(raw)
                  IN  IF ~data.ok THEN Raised("JSONDecodeError")
                      ELSE IF IsList(data.val)
                           THEN Returned(SelectSeq(data.val.items, IsDict))
                      ELSE load_object_or_lines(raw)
             ELSE load_object_or_lines(raw)

load_games(file) ==
    IF ~file.readable THEN Raised("OSError")
    ELSE LET raw == Strip(file.text)
         IN  IF StartsWith(raw, <<"[">>) /\ EndsWith(raw, <<"]">>)
             THEN LET data == json_loads(raw)
                  IN  IF ~data.ok THEN Raised("JSONDecodeError")
                      ELSE IF IsList(data.val) THEN Returned(data.val.items)
                      ELSE load_object_or_lines(raw)
             ELSE load_object_or_lines(raw)

(***************************************************************************)
(* Records ("games").  A mapping is a function whose domain is the set of  *)
(* keys present.  The value of "eliminate" is tagged with whether it is a  *)
(* mapping; a bid round element records how many items it unpacks to.      *)
(***************************************************************************)
NoKeys == <<>>
ADict(d) == [is_dict |-> TRUE, d |-> d]
NotADict == [is_dict |-> FALSE, d |-> NoKeys]
Pair(name, e) == [arity |-> 2, player_name |-> name, entry |-> e]
NotAPair(name) == [arity |-> 3, player_name |-> name, entry |-> NoKeys]

TheVillager == <<"the", " ", "Villager">>
AskVillager == <<"ask", " ", "the", " ", "Villager", " ", "X">>

GameOf ==
    [G1 |-> [eliminate |-> ADict([prompt |-> <<"P">>, raw_resp |-> <<"R">>])],
     G2 |-> [eliminate |-> ADict([prompt |-> <<"P">>]),
             bid |-> << <<Pair("Alice", [prompt |-> AskVillager, raw_resp |-> <<"Y">>])>> >>],
     G3 |-> [eliminate |-> ADict([prompt |-> <<"P">>, raw_resp |-> <<>>]),
             bid |-> << <<Pair("Alice", [prompt |-> <<"the", " ", "villager">>, raw_resp |-> <<"Y">>]),
                          Pair("Bob", [prompt |-> TheVillager]),
                          Pair("Carol", [prompt |-> TheVillager, raw_resp |-> <<"Y">>])>>,
                        <<Pair("Alice", [prompt |-> <<"X">> \o TheVillager, raw_resp |-> <<"R">>])>> >>],
     G4 |-> [eliminate |-> NotADict, bid |-> <<>>],
     G5 |-> [eliminate |-> ADict([prompt |-> <<>>, raw_resp |-> <<"R">>]),
             bid |-> << <<Pair("Alice", [prompt |-> AskVillager, raw_resp |-> <<"Y">>]),
                          NotAPair("Bob")>> >>],
     G6 |-> [eliminate |-> ADict([prompt |-> <<"P">>, raw_resp |-> <<"R">>]),
             bid |-> << <<Pair("Alice", [raw_resp |-> <<"Y">>])>>,
                        <<>>,
                        <<Pair("Bob", [prompt |-> AskVillager, raw_resp |-> <<>>]),
                          Pair("Carol", [prompt |-> AskVillager, raw_resp |-> <<"Y">>])>> >>],
     G7 |-> [eliminate |-> ADict([prompt |-> TheVillager, raw_resp |-> <<"R">>]),
             bid |-> << <<Pair("Alice", [prompt |-> <<"P">>, raw_resp |-> <<"R">>])>> >>],
     G8 |-> NoKeys]

\* dict.get(key, default)
DictGet(d, key, default) == IF key \in DOMAIN d THEN d[key] ELSE default

\* truthiness of a string
Truthy(s) == s # <<>>

RECURSIVE Flatten(_)
Flatten(rounds) ==
    IF rounds = <<>> THEN <<>> ELSE Head(rounds) \o Flatten(Tail(rounds))

(***************************************************************************)
(* process_logs: the body of the loop over one file's games                *)
(***************************************************************************)
\* variant: only the prompt is tested before the turn is formatted
eliminate_examples_prompt_only(game) ==
    LET elim == DictGet(game, "eliminate", NotADict)
    IN  IF elim.is_dict /\ Truthy(DictGet(elim.d, "prompt", <<>>))
        THEN <<[text |-> format_conversation(elim.d["prompt"],
                                             DictGet(elim.d, "raw_resp", <<>>))]>>
        ELSE <<>>

\* the "eliminate" turn of a game: the werewolf examples it appends
eliminate_examples(game) ==
    LET elim == DictGet(game, "eliminate", NotADict)
    IN  IF elim.is_dict
           /\ Truthy(DictGet(elim.d, "prompt", <<>>))
           /\ Truthy(DictGet(elim.d, "raw_resp", <<>>))
        THEN <<[text |-> format_conversation(elim.d["prompt"], elim.d["raw_resp"])]>>
        ELSE <<>>

\* variant: the role is not looked for in the prompt
bid_entry_examples_any_role(entry) ==
    LET prompt == DictGet(entry, "prompt", <<>>)
        raw == DictGet(entry, "raw_resp", <<>>)
    IN  IF Truthy(prompt) /\ Truthy(raw)
        THEN <<[text |-> format_conversation(prompt, raw)]>>
        ELSE <<>>

\* one element of a round, once unpacked: the villager examples it appends
bid_entry_examples(entry) ==
    LET prompt == DictGet(entry, "prompt", <<>>)
        raw == DictGet(entry, "raw_resp", <<>>)
    IN  IF Contains(prompt, TheVillager) /\ Truthy(prompt) /\ Truthy(raw)
        THEN <<[text |-> format_conversation(prompt, raw)]>>
        ELSE <<>>

\* the two nested loops over game.get("bid", []), the rounds taken in order;
\* unpacking an element that is not a pair raises ValueError
RECURSIVE bid_examples(_, _)
bid_examples(items, acc) ==
    IF items = <<>> THEN [raised |-> FALSE, examples |-> acc]
    ELSE IF Head(items).arity # 2 THEN [raised |-> TRUE, examples |-> acc]
    ELSE bid_examples(Tail(items), acc \o bid_entry_examples(Head(items).entry))

\* variant: game["bid"] instead of game.get("bid", []): a game without
\* "bid" raises
process_game_bid_required(v) ==
    IF ~IsDict(v) THEN [raised |-> FALSE, wolf |-> <<>>, vill |-> <<>>]
    ELSE LET game == GameOf[v.g]
             b == bid_examples(Flatten(DictGet(game, "bid", <<>>)), <<>>)
         IN  [raised |-> b.raised \/ "bid" \notin DOMAIN game,
              wolf |-> eliminate_examples(game),
              vill |-> IF "bid" \in DOMAIN game THEN b.examples ELSE <<>>]

\* one iteration of "for game in games"
process_game(v) ==
    IF ~IsDict(v) THEN [raised |-> FALSE, wolf |-> <<>>, vill |-> <<>>]
    ELSE LET game == GameOf[v.g]
             b == bid_examples(Flatten(DictGet(game, "bid", <<>>)), <<>>)
         IN  [raised |-> b.raised, wolf |-> eliminate_examples(game), vill |-> b.examples]

\* variant: the name is not lowercased
is_log_file_case_sensitive(fn) == EndsWith(fn, <<".", "j", "s", "o", "n">>)

\* fn.lower().endswith(".json")
is_log_file(fn) == EndsWith(Lower(fn), <<".", "j", "s", "o", "n">>)

(***************************************************************************)
(* Inputs                                                                  *)
(***************************************************************************)
FileNames ==
    {<<"a", ".", "j", "s", "o", "n">>,
     <<"b", ".", "J", "S", "O", "N">>,
     <<"c", ".", "j", "s", "o", "n", "l">>,
     <<"d", ".", "t", "x", "t">>,
     <<"j", "s", "o", "n">>}

FileTexts ==
    {<<"[", "G1", ",", "G2", "]", "\n">>,
     <<"G3", "\n", "x", "\n", "\n", "G6">>,
     <<"G7">>,
     <<"[", "G2", ",", "null", ",", "G3", "]">>,
     <<"[", "x", "]">>,
     <<"G5", "\n", "G1">>,
     <<"G4", "\n", "[", "G1", "]", "\n", "G8">>}

Files ==
    [fn : FileNames, text : FileTexts, readable : {TRUE}]
        \cup [fn : FileNames, text : {<<>>}, readable : {FALSE}]

\* os.listdir: any order, no name twice
Listings ==
    {d \in SeqsUpTo(Files, MaxFiles) :
        \A i, j \in 1..Len(d) : i # j => d[i].fn # d[j].fn}

NoFile == [fn |-> <<>>, text |-> <<>>, readable |-> TRUE]
NoFormat == [p1 |-> <<>>, r1 |-> <<>>, p2 |-> <<>>, r2 |-> <<>>]

(***************************************************************************)
(* main: process_logs, then os.makedirs and the two save_to_disk calls     *)
(***************************************************************************)
Init ==
    /\ logs_dir \in Listings
    /\ pc = "next_file"
    /\ exc = ""
    /\ fileIdx = 1
    /\ games = <<>>
    /\ gameIdx = 1
    /\ werewolf_examples = <<>>
    /\ villager_examples = <<>>
    /\ opened = <<>>
    /\ out_dir_created = FALSE
    /\ werewolf_saved = FALSE
    /\ villager_saved = FALSE
    /\ load_in = NoFile
    /\ load_out = Returned(<<>>)
    /\ fmt_in = NoFormat
    /\ fmt_out = <<>>

pureVars == <<load_in, load_out, fmt_in, fmt_out>>
diskVars == <<out_dir_created, werewolf_saved, villager_saved>>

\* a directory entry whose name does not match: continue
SkipFile ==
    /\ pc = "next_file"
    /\ fileIdx <= Len(logs_dir)
    /\ ~is_log_file(logs_dir[fileIdx].fn)
    /\ fileIdx' = fileIdx + 1
    /\ UNCHANGED <<logs_dir, pc, exc, games, gameIdx, werewolf_examples,
                   villager_examples, opened, diskVars, pureVars>>

\* games = load_games(path)
LoadFile ==
    /\ pc = "next_file"
    /\ fileIdx <= Len(logs_dir)
    /\ is_log_file(logs_dir[fileIdx].fn)
    /\ LET r == load_games(logs_dir[fileIdx])
       IN  /\ opened' = Append(opened, logs_dir[fileIdx].fn)
           /\ IF r.raised
              THEN /\ pc' = "raised"
                   /\ exc' = r.exc
                   /\ UNCHANGED <<games, gameIdx>>
              ELSE /\ pc' = "games"
                   /\ games' = r.games
                   /\ gameIdx' = 1
                   /\ UNCHANGED exc
    /\ UNCHANGED <<logs_dir, fileIdx, werewolf_examples, villager_examples,
                   diskVars, pureVars>>

\* variant: new examples are put in front of the lists
ProcessGame_prepend ==
    /\ pc = "games"
    /\ gameIdx <= Len(games)
    /\ LET r == process_game(games[gameIdx])
       IN  /\ werewolf_examples' = r.wolf \o werewolf_examples
           /\ villager_examples' = r.vill \o villager_examples
           /\ IF r.raised
              THEN /\ pc' = "raised"
                   /\ exc' = "ValueError"
                   /\ UNCHANGED gameIdx
              ELSE /\ gameIdx' = gameIdx + 1
                   /\ UNCHANGED <<pc, exc>>
    /\ UNCHANGED <<logs_dir, fileIdx, games, opened, diskVars, pureVars>>

\* one iteration of "for game in games"
ProcessGame ==
    /\ pc = "games"
    /\ gameIdx <= Len(games)
    /\ LET r == process_game(games[gameIdx])
       IN  /\ werewolf_examples' = werewolf_examples \o r.wolf
           /\ villager_examples' = villager_examples \o r.vill
           /\ IF r.raised
              THEN /\ pc' = "raised"
                   /\ exc' = "ValueError"
                   /\ UNCHANGED gameIdx
              ELSE /\ gameIdx' = gameIdx + 1
                   /\ UNCHANGED <<pc, exc>>
    /\ UNCHANGED <<logs_dir, fileIdx, games, opened, diskVars, pureVars>>

\* the games of this file are exhausted: on to the next directory entry
EndOfGames ==
    /\ pc = "games"
    /\ gameIdx > Len(games)
    /\ pc' = "next_file"
    /\ fileIdx' = fileIdx + 1
    /\ UNCHANGED <<logs_dir, exc, games, gameIdx, werewolf_examples,
                   villager_examples, opened, diskVars, pureVars>>

\* return werewolf_examples, villager_examples
ReturnExamples ==
    /\ pc = "next_file"
    /\ fileIdx > Len(logs_dir)
    /\ pc' = "makedirs"
    /\ UNCHANGED <<logs_dir, exc, fileIdx, games, gameIdx, werewolf_examples,
                   villager_examples, opened, diskVars, pureVars>>

\* variant: the output directory is made before process_logs is called
Makedirs_before_process_logs ==
    \/ /\ pc = "next_file"
       /\ ~out_dir_created
       /\ out_dir_created' = TRUE
       /\ UNCHANGED <<logs_dir, pc, exc, fileIdx, games, gameIdx, werewolf_examples,
                      villager_examples, opened, werewolf_saved, villager_saved, pureVars>>
    \/ /\ pc = "makedirs"
       /\ pc' = "save_werewolf"
       /\ UNCHANGED <<logs_dir, exc, fileIdx, games, gameIdx, werewolf_examples,
                      villager_examples, opened, diskVars, pureVars>>

\* os.makedirs(args.out_dir, exist_ok=True); it may fail
Makedirs ==
    /\ pc = "makedirs"
    /\ \/ /\ out_dir_created' = TRUE
          /\ pc' = "save_werewolf"
          /\ UNCHANGED exc
       \/ /\ pc' = "raised"
          /\ exc' = "OSError"
          /\ UNCHANGED out_dir_created
    /\ UNCHANGED <<logs_dir, fileIdx, games, gameIdx, werewolf_examples,
                   villager_examples, opened, werewolf_saved, villager_saved, pureVars>>

\* wolf_ds.save_to_disk(...); it may fail
SaveWerewolf ==
    /\ pc = "save_werewolf"
    /\ \/ /\ werewolf_saved' = TRUE
          /\ pc' = "save_villager"
          /\ UNCHANGED exc
       \/ /\ pc' = "raised"
          /\ exc' = "OSError"
          /\ UNCHANGED werewolf_saved
    /\ UNCHANGED <<logs_dir, fileIdx, games, gameIdx, werewolf_examples,
                   villager_examples, opened, out_dir_created, villager_saved, pureVars>>

\* vill_ds.save_to_disk(...); it may fail
SaveVillager ==
    /\ pc = "save_villager"
    /\ \/ /\ villager_saved' = TRUE
          /\ pc' = "done"
          /\ UNCHANGED exc
       \/ /\ pc' = "raised"
          /\ exc' = "OSError"
          /\ UNCHANGED villager_saved
    /\ UNCHANGED <<logs_dir, fileIdx, games, gameIdx, werewolf_examples,
                   villager_examples, opened, out_dir_created, werewolf_saved, pureVars>>

Next ==
    \/ SkipFile
    \/ LoadFile
    \/ ProcessGame
    \/ EndOfGames
    \/ ReturnExamples
    \/ Makedirs
    \/ SaveWerewolf
    \/ SaveVillager

Spec == Init /\ [][Next]_vars

(***************************************************************************)
(* load_games on its own: one readable file, any text over LoadAlphabet    *)
(***************************************************************************)
LoadAlphabet == {"[", "]", ",", "\n", " ", "G1", "G2", "null", "x"}

LoadInputs ==
    [fn : {<<"a", ".", "j", "s", "o", "n">>},
     text : SeqsUpTo(LoadAlphabet, MaxTextLen),
     readable : {TRUE}]

InitLoad ==
    /\ load_in \in LoadInputs
    /\ load_out = Returned(<<>>)
    /\ pc = "call_load_games"
    /\ exc = ""
    /\ logs_dir = <<>>
    /\ fileIdx = 1
    /\ games = <<>>
    /\ gameIdx = 1
    /\ werewolf_examples = <<>>
    /\ villager_examples = <<>>
    /\ opened = <<>>
    /\ out_dir_created = FALSE
    /\ werewolf_saved = FALSE
    /\ villager_saved = FALSE
    /\ fmt_in = NoFormat
    /\ fmt_out = <<>>

CallLoadGames ==
    /\ pc = "call_load_games"
    /\ load_out' = load_games(load_in)
    /\ pc' = IF load_out'.raised THEN "raised" ELSE "returned"
    /\ exc' = load_out'.exc
    /\ UNCHANGED <<logs_dir, fileIdx, games, gameIdx, werewolf_examples,
                   villager_examples, opened, diskVars, load_in, fmt_in, fmt_out>>

NextLoad == CallLoadGames

SpecLoad == InitLoad /\ [][NextLoad]_vars

(***************************************************************************)
(* format_conversation on its own: two (prompt, response) pairs            *)
(***************************************************************************)
TurnDelimiter == <<"<im_end>", "\n", "<im_start>", "assistant", "\n">>

RECURSIVE ChunkStrings(_, _)
ChunkStrings(chunks, n) ==
    IF n = 0 THEN {<<>>}
    ELSE LET shorter == ChunkStrings(chunks, n - 1)
         IN  shorter \cup {s \o c : s \in shorter, c \in chunks}

FormatStrings ==
    ChunkStrings({<<"x">>, TurnDelimiter}, MaxChunks)
        \cup {<<"<im_end>">>, <<"<im_end>", "\n">>, <<"<im_start>", "assistant", "\n">>}

InitFormat ==
    /\ fmt_in \in [p1 : FormatStrings, r1 : FormatStrings,
                   p2 : FormatStrings, r2 : FormatStrings]
    /\ fmt_out = <<>>
    /\ pc = "call_format"
    /\ exc = ""
    /\ logs_dir = <<>>
    /\ fileIdx = 1
    /\ games = <<>>
    /\ gameIdx = 1
    /\ werewolf_examples = <<>>
    /\ villager_examples = <<>>
    /\ opened = <<>>
    /\ out_dir_created = FALSE
    /\ werewolf_saved = FALSE
    /\ villager_saved = FALSE
    /\ load_in = NoFile
    /\ load_out = Returned(<<>>)

CallFormat ==
    /\ pc = "call_format"
    /\ fmt_out' = <<format_conversation(fmt_in.p1, fmt_in.r1),
                    format_conversation(fmt_in.p2, fmt_in.r2)>>
    /\ pc' = "formatted"
    /\ UNCHANGED <<logs_dir, exc, fileIdx, games, gameIdx, werewolf_examples,
                   villager_examples, opened, diskVars, load_in, load_out, fmt_in>>

NextFormat == CallFormat

SpecFormat == InitFormat /\ [][NextFormat]_vars

(***************************************************************************)
(* Properties of load_games                                                *)
(***************************************************************************)
LoadCalled == pc \in {"returned", "raised"} /\ load_in # NoFile

\* C1: load_games never raises on the content of a readable file: whatever
\* the text, it returns a (possibly empty) sequence and every element of it
\* is a mapping.
C1_LoadNeverRaises ==
    LoadCalled /\ load_in.readable =>
        /\ ~load_out.raised
        /\ \A i \in 1..Len(load_out.games) : IsDict(load_out.games[i])

\* the lines of a text that parse to a mapping, in file order
MappingLines(text) ==
    LET lines == SplitLines(text)
        parsed == [i \in 1..Len(lines) |-> json_loads(Strip(lines[i]))]
        IsMapping(r) == r.ok /\ r.val.t = "dict"
        kept == SelectSeq(parsed, IsMapping)
    IN  [i \in 1..Len(kept) |-> kept[i].val]

\* the whole text is one JSON array (the JSON-array format, not JSONL)
IsOneJsonArray(text) ==
    LET whole == json_loads(text)
    IN  whole.ok /\ whole.val.t = "list"

\* C2: for a JSONL file of N lines that parse to a mapping and M lines that
\* are blank, malformed or non-mappings, in any order (the first line may
\* begin with "[" and the last may end with "]"), load_games returns exactly
\* the N mappings in file order and skips the other lines without error.
C2_JsonlReturnsMappingLines ==
    (LoadCalled /\ ~IsOneJsonArray(load_in.text)) =>
        load_out = Returned(MappingLines(load_in.text))

(***************************************************************************)
(* Properties of format_conversation                                       *)
(***************************************************************************)
\* C6 as stated: two pairs with different prompts never format to the same
\* string, whatever the prompts and responses contain.
C6_InjectiveOnPrompt ==
    pc = "formatted" /\ fmt_in.p1 # fmt_in.p2 => fmt_out[1] # fmt_out[2]

\* C6: two pairs with different prompts format to different strings whenever
\* neither prompt contains the delimiter text that separates the prompt from
\* the response; the responses may contain anything.
C6_InjectiveOnDelimiterFreePrompt ==
    ( /\ pc = "formatted"
      /\ fmt_in.p1 # fmt_in.p2
      /\ ~Contains(fmt_in.p1, TurnDelimiter)
      /\ ~Contains(fmt_in.p2, TurnDelimiter) )
        => fmt_out[1] # fmt_out[2]

C6_Witness ==
    /\ pc = "formatted"
    /\ fmt_in.p1 = <<"<im_end>", "\n">>
    /\ fmt_in.p2 = <<>>
    /\ Contains(fmt_in.r1, TurnDelimiter)
    /\ Contains(fmt_in.r2, TurnDelimiter)
    /\ fmt_out[1] # fmt_out[2]

(***************************************************************************)
(* Properties of main                                                      *)
(***************************************************************************)
ProcessLogsReturned == fileIdx > Len(logs_dir) /\ pc \notin {"next_file", "games"}

\* C3 as stated: a run that ends in a fatal error, a failure during
\* persistence included, has written neither dataset, and nothing is created
\* or saved before process_logs has finished.
C3_NoPartialOutput ==
    /\ (out_dir_created \/ werewolf_saved \/ villager_saved) => ProcessLogsReturned
    /\ pc = "raised" => ~werewolf_saved /\ ~villager_saved

\* C3: neither the output directory is created nor a dataset saved until
\* process_logs has finished every matching file without a fatal error, so a
\* run that fails inside process_logs (unreadable file, malformed content,
\* malformed bid round entry) ends with no directory and no dataset written;
\* the villager dataset is saved only after the werewolf dataset.
C3_NoOutputBeforeProcessLogsReturns ==
    /\ (out_dir_created \/ werewolf_saved \/ villager_saved) => ProcessLogsReturned
    /\ (pc = "raised" /\ ~ProcessLogsReturned) =>
            ~out_dir_created /\ ~werewolf_saved /\ ~villager_saved
    /\ werewolf_saved => out_dir_created
    /\ villager_saved => werewolf_saved

C3_Witness ==
    /\ pc = "raised"
    /\ exc = "ValueError"
    /\ Len(opened) = 2
    /\ werewolf_examples # <<>>
    /\ villager_examples # <<>>
    /\ ~out_dir_created

(***************************************************************************)
(* Properties of process_logs                                              *)
(***************************************************************************)
\* the games named in the files of the directory
GamesIn(dir) ==
    {GameOf[tok] : tok \in {t \in GameTokens :
        \E i \in 1..Len(dir) : \E k \in 1..Len(dir[i].text) : dir[i].text[k] = t}}

EliminateEntries(dir) ==
    {g["eliminate"].d : g \in {h \in GamesIn(dir) :
        "eliminate" \in DOMAIN h /\ h["eliminate"].is_dict}}

BidEntries(dir) ==
    UNION {{Flatten(g["bid"])[i].entry : i \in 1..Len(Flatten(g["bid"]))} :
            g \in {h \in GamesIn(dir) : "bid" \in DOMAIN h}}

PresentAndNonEmpty(e) ==
    /\ "prompt" \in DOMAIN e
    /\ "raw_resp" \in DOMAIN e
    /\ e["prompt"] # <<>>
    /\ e["raw_resp"] # <<>>

FormattedFrom(ex, entries) ==
    \E e \in entries :
        /\ PresentAndNonEmpty(e)
        /\ ex.text = format_conversation(e["prompt"], e["raw_resp"])

\* C4: every Example of either list comes from a source entry (an eliminate
\* mapping for the werewolf list, a bid round entry for the villager list)
\* whose prompt and raw_resp are both present and non-empty, and its text is
\* format_conversation(prompt, raw_resp) of that entry.
C4_ExamplesHavePromptAndResponse ==
    /\ \A i \in 1..Len(werewolf_examples) :
            FormattedFrom(werewolf_examples[i], EliminateEntries(logs_dir))
    /\ \A i \in 1..Len(villager_examples) :
            FormattedFrom(villager_examples[i], BidEntries(logs_dir))

C4_Witness ==
    /\ pc = "games"
    /\ gameIdx > Len(games)
    /\ \E i \in 1..Len(games) : games[i] = JDict("G3")
    /\ \E i \in 1..Len(games) : games[i] = JDict("G6")
    /\ Len(werewolf_examples) = 1
    /\ Len(villager_examples) = 3

\* the elements of a game's rounds that the loops reach: all of them, or
\* those before the first one that is not a pair
RECURSIVE PairsReached(_)
PairsReached(items) ==
    IF items = <<>> \/ Head(items).arity # 2 THEN <<>>
    ELSE <<Head(items)>> \o PairsReached(Tail(items))

MentionsVillager(e) ==
    /\ PresentAndNonEmpty(e)
    /\ \E i \in 1..(Len(e["prompt"]) - 2) :
        /\ e["prompt"][i] = "the"
        /\ e["prompt"][i + 1] = " "
        /\ e["prompt"][i + 2] = "Villager"

EliminateQualifies(game) ==
    /\ "eliminate" \in DOMAIN game
    /\ game["eliminate"].is_dict
    /\ PresentAndNonEmpty(game["eliminate"].d)

ProcessingMapping ==
    /\ pc = "games"
    /\ gameIdx <= Len(games)
    /\ games[gameIdx].t = "dict"

\* C5: processing a mapping record appends one villager Example for each bid
\* round entry whose prompt contains "the Villager" and whose prompt and
\* raw_resp are non-empty, and none for any other entry; the werewolf list
\* grows only by the record's eliminate turn and the eliminate turn adds
\* nothing to the villager list.
C5_Step ==
    ProcessingMapping =>
        LET game == GameOf[games[gameIdx].g]
            reached == PairsReached(Flatten(IF "bid" \in DOMAIN game THEN game["bid"] ELSE <<>>))
            hits == {i \in 1..Len(reached) : MentionsVillager(reached[i].entry)}
        IN  /\ Len(villager_examples') = Len(villager_examples) + Cardinality(hits)
            /\ SubSeq(villager_examples', 1, Len(villager_examples)) = villager_examples
            /\ \A k \in (Len(villager_examples) + 1)..Len(villager_examples') :
                    \E i \in hits : villager_examples'[k].text =
                        format_conversation(reached[i].entry["prompt"], reached[i].entry["raw_resp"])
            /\ werewolf_examples' = werewolf_examples \o
                    (IF EliminateQualifies(game)
                     THEN <<[text |-> format_conversation(game["eliminate"].d["prompt"],
                                                          game["eliminate"].d["raw_resp"])]>>
                     ELSE <<>>)

C5_VillagerOnlyFromBids == [][C5_Step]_vars

C5_Witness ==
    /\ pc = "games"
    /\ gameIdx > Len(games)
    /\ games = <<JDict("G7")>>
    /\ Len(werewolf_examples) >= 1
    /\ \E i \in 1..Len(logs_dir) : logs_dir[i].text = <<"[", "G2", ",", "null", ",", "G3", "]">>
    /\ Len(villager_examples) = 3

(***************************************************************************)
(* Properties of the batch driver                                          *)
(***************************************************************************)
JsonSuffixes ==
    {<<".", j, s, o, n>> : j \in {"j", "J"}, s \in {"s", "S"},
                          o \in {"o", "O"}, n \in {"n", "N"}}

HasJsonSuffix(fn) ==
    /\ Len(fn) >= 5
    /\ SubSeq(fn, Len(fn) - 4, Len(fn)) \in JsonSuffixes

JsonFiles(dir) == SelectSeq(dir, LAMBDA f : HasJsonSuffix(f.fn))

RECURSIVE ExamplesOfValues(_)
ExamplesOfValues(vs) ==
    IF vs = <<>> THEN [wolf |-> <<>>, vill |-> <<>>]
    ELSE LET h == process_game(Head(vs))
             t == ExamplesOfValues(Tail(vs))
         IN  [wolf |-> h.wolf \o t.wolf, vill |-> h.vill \o t.vill]

RECURSIVE ExamplesOfFiles(_)
ExamplesOfFiles(files) ==
    IF files = <<>> THEN [wolf |-> <<>>, vill |-> <<>>]
    ELSE LET h == ExamplesOfValues(load_games(Head(files)).games)
             t == ExamplesOfFiles(Tail(files))
         IN  [wolf |-> h.wolf \o t.wolf, vill |-> h.vill \o t.vill]

\* C7: only directory entries whose lowercased name ends with ".json" are
\* opened, in listing order; every other entry (".jsonl" names included) is
\* never opened, and the lists process_logs returns are the concatenation, in
\* listing order, of the examples of the matching files alone.
C7_OnlyJsonFilesContribute ==
    LET matching == JsonFiles(logs_dir)
    IN  /\ Len(opened) <= Len(matching)
        /\ \A i \in 1..Len(opened) : opened[i] = matching[i].fn
        /\ pc \in {"makedirs", "save_werewolf", "save_villager", "done"} =>
            /\ Len(opened) = Len(matching)
            /\ werewolf_examples = ExamplesOfFiles(matching).wolf
            /\ villager_examples = ExamplesOfFiles(matching).vill

C7_Witness ==
    /\ pc = "makedirs"
    /\ Len(logs_dir) = 2
    /\ logs_dir[1].fn = <<"c", ".", "j", "s", "o", "n", "l">>
    /\ logs_dir[1].text = <<"G7">>
    /\ opened = << <<"b", ".", "J", "S", "O", "N">> >>
    /\ werewolf_examples # <<>>
    /\ villager_examples # <<>>

\* C8 (loader): a file whose trimmed content is one valid JSON array is
\* loaded as that array's elements, unchanged in order and content, the
\* non-mapping elements included.
C8_ArrayLoadedUnchanged ==
    pc = "games" =>
        LET whole == json_loads(Strip(logs_dir[fileIdx].text))
        IN  (whole.ok /\ whole.val.t = "list") => games = whole.val.items

\* C8 (extractor): a non-mapping element is skipped silently: no Example, no
\* error, and the loop goes on to the next element.
C8_NonMappingStep ==
    (pc = "games" /\ gameIdx <= Len(games) /\ games[gameIdx].t # "dict") =>
        /\ werewolf_examples' = werewolf_examples
        /\ villager_examples' = villager_examples
        /\ pc' = "games"
        /\ exc' = exc
        /\ gameIdx' = gameIdx + 1

\* C8 (output): when the first file opened is an array, what it contributes
\* is what the array without its non-mapping elements contributes.
C8_OutputAsIfFiltered ==
    (pc = "games" /\ gameIdx > Len(games) /\ Len(opened) = 1) =>
        LET mappings == SelectSeq(games, LAMBDA v : v.t = "dict")
        IN  /\ werewolf_examples = ExamplesOfValues(mappings).wolf
            /\ villager_examples = ExamplesOfValues(mappings).vill

IsPrefix(s, t) == Len(s) <= Len(t) /\ SubSeq(t, 1, Len(s)) = s

FileNamed(fn) == logs_dir[CHOOSE i \in 1..Len(logs_dir) : logs_dir[i].fn = fn]

\* the records whose turns have been taken so far, in the order taken
RECURSIVE RecordsOf(_)
RecordsOf(names) ==
    IF names = <<>> THEN <<>>
    ELSE load_games(FileNamed(Head(names))).games \o RecordsOf(Tail(names))

RecordsDone ==
    IF pc = "games"
    THEN RecordsOf(SubSeq(opened, 1, Len(opened) - 1)) \o SubSeq(games, 1, gameIdx - 1)
    ELSE RecordsOf(opened)

MappingsDone == SelectSeq(RecordsDone, LAMBDA v : v.t = "dict")

\* the texts of the qualifying turns of a sequence of mapping records: record
\* by record, and within a record round by round and entry by entry
RECURSIVE WerewolfTexts(_)
WerewolfTexts(vs) ==
    IF vs = <<>> THEN <<>>
    ELSE LET game == GameOf[Head(vs).g]
         IN  (IF EliminateQualifies(game)
              THEN <<[text |-> format_conversation(game["eliminate"].d["prompt"],
                                                   game["eliminate"].d["raw_resp"])]>>
              ELSE <<>>) \o WerewolfTexts(Tail(vs))

RECURSIVE VillagerTexts(_)
VillagerTexts(vs) ==
    IF vs = <<>> THEN <<>>
    ELSE LET game == GameOf[Head(vs).g]
             rounds == IF "bid" \in DOMAIN game THEN game["bid"] ELSE <<>>
             hits == SelectSeq(Flatten(rounds), LAMBDA it : MentionsVillager(it.entry))
         IN  [i \in 1..Len(hits) |->
                [text |-> format_conversation(hits[i].entry["prompt"], hits[i].entry["raw_resp"])]]
             \o VillagerTexts(Tail(vs))

C9_InOrder ==
    pc \in {"next_file", "games", "makedirs", "save_werewolf", "save_villager", "done"} =>
        /\ werewolf_examples = WerewolfTexts(MappingsDone)
        /\ villager_examples = VillagerTexts(MappingsDone)

C9_AppendStep ==
    /\ IsPrefix(werewolf_examples, werewolf_examples')
    /\ IsPrefix(villager_examples, villager_examples')

\* C9: the two lists are append-only (no Example already appended is removed,
\* changed or reordered) and, within each category, the Examples are in the
\* order of the files as listed, then of the records as loaded, then of the
\* bid rounds and of the entries within a round; turns with identical text
\* are each kept.
C9_AppendOnlyInOrder == []C9_InOrder /\ [][C9_AppendStep]_vars

C9_Witness ==
    /\ pc = "makedirs"
    /\ Len(opened) = 2
    /\ Len(werewolf_examples) = 2
    /\ werewolf_examples[1] = werewolf_examples[2]
    /\ Len(villager_examples) = 4
    /\ villager_examples[1] = villager_examples[4]
    /\ villager_examples[2] # villager_examples[3]

(***************************************************************************)
(* Missing optional fields                                                 *)
(***************************************************************************)
AllPairs(game) ==
    "bid" \in DOMAIN game =>
        \A i \in 1..Len(game["bid"]) : \A k \in 1..Len(game["bid"][i]) :
            game["bid"][i][k].arity = 2

EntriesWithBothFields(game) ==
    IF "bid" \notin DOMAIN game THEN {}
    ELSE {<<i, k>> \in (1..Len(game["bid"])) \X (1..3) :
            /\ k <= Len(game["bid"][i])
            /\ "prompt" \in DOMAIN game["bid"][i][k].entry
            /\ "raw_resp" \in DOMAIN game["bid"][i][k].entry}

C10_Step ==
    (ProcessingMapping /\ AllPairs(GameOf[games[gameIdx].g])) =>
        LET game == GameOf[games[gameIdx].g]
        IN  /\ pc' = "games"
            /\ exc' = exc
            /\ gameIdx' = gameIdx + 1
            /\ ( \/ "eliminate" \notin DOMAIN game
                 \/ ~game["eliminate"].is_dict
                 \/ "prompt" \notin DOMAIN game["eliminate"].d
                 \/ "raw_resp" \notin DOMAIN game["eliminate"].d )
                    => werewolf_examples' = werewolf_examples
            /\ Len(villager_examples') - Len(villager_examples)
                    <= Cardinality(EntriesWithBothFields(game))

\* C10: a mapping record without "eliminate", without "bid", with an
\* eliminate mapping lacking prompt or raw_resp, or with a bid entry lacking
\* prompt or raw_resp raises nothing and yields no Example for that turn, and
\* the loop continues with the next record.
C10_MissingFieldsAreNotErrors == [][C10_Step]_vars

C10_Witness ==
    /\ pc = "games"
    /\ gameIdx > Len(games)
    /\ games = <<JDict("G4"), JDict("G8")>>
    /\ Len(opened) = 2
    /\ \E i \in 1..Len(logs_dir) : logs_dir[i].text = <<"G3", "\n", "x", "\n", "\n", "G6">>
    /\ Len(werewolf_examples) = 1
    /\ Len(villager_examples) = 3
====
